---- MODULE Spec2Model ----
(***************************************************************************)
(* TodoCLI: a task table in SQLite (src/src/db.rs), the Task entity        *)
(* (src/src/models.rs) and the CLI commands over them                      *)
(* (src/src/commands.rs, src/src/main.rs).                                 *)
(*                                                                         *)
(* Instants.  A DateTime<Utc> is a record of its civil date in UTC, the    *)
(* second of the day and the nanoseconds.  The clock is read at the        *)
(* instants Clock(0), Clock(1), ...: 2026-01-01T00:00:00 UTC and every     *)
(* half second after it, so readings have whole-second and fractional      *)
(* instants; due dates are any instant a date string denotes.              *)
(* Text (SQLite TEXT, command-line strings holding dates) is a sequence    *)
(* of UTF-8 bytes, so that formatting, parsing and the database's          *)
(* byte-wise ORDER BY on TEXT columns are computed, not assumed.           *)
(* Option<T> is a sequence: None is << >>, Some(x) is << x >>; a NULL      *)
(* column is << >>.  Titles and descriptions are TLA+ strings.             *)
(***************************************************************************)
EXTENDS Integers, Sequences, FiniteSets

VARIABLES rows, now, ret, writes

vars == <<rows, now, ret, writes>>

\* ------------------------------------------------------------------ bounds

\* The clock is read at Clock(0)..Clock(MaxTicks).
MaxTicks == 1
\* At most MaxRows rows are stored at once.
MaxRows == 2
\* Rowids stay within 1..MaxId (inserts stop once the next rowid would pass it).
MaxId == 3
\* At most MaxWrites direct calls that write to the table are made.
MaxWrites == 4
\* At most MaxCommands commands that write to the table are run.
MaxCommands == 3

\* ------------------------------------------------------------------ instants

None == << >>

Some(x) == << x >>

\* A DateTime<Utc>: the civil date, the second of the day and the
\* nanoseconds (NaiveTime's secs and frac; frac is 1000000000 or more
\* during a leap second).
DateTime(year, month, day, secs, frac) ==
    [ year |-> year, month |-> month, day |-> day, secs |-> secs, frac |-> frac ]

\* a < b for two DateTime<Utc>.
Before(a, b) ==
    IF a.year # b.year THEN a.year < b.year
    ELSE IF a.month # b.month THEN a.month < b.month
    ELSE IF a.day # b.day THEN a.day < b.day
    ELSE IF a.secs # b.secs THEN a.secs < b.secs
    ELSE a.frac < b.frac

IsLeapYear(y) == (y % 4 = 0 /\ y % 100 # 0) \/ y % 400 = 0

DaysInMonth(y, m) ==
    IF m = 2 THEN (IF IsLeapYear(y) THEN 29 ELSE 28)
    ELSE IF m \in { 4, 6, 9, 11 } THEN 30
    ELSE 31

\* NaiveDate::from_ymd_opt(y, m, d).and_hms_opt(0, 0, 0) as DateTime<Utc>:
\* Some(midnight of the day), None when there is no such day or the year
\* is outside NaiveDate::MIN..NaiveDate::MAX.
from_ymd_opt(y, m, d) ==
    IF /\ y >= -262143 /\ y <= 262142
       /\ m >= 1 /\ m <= 12
       /\ d >= 1 /\ d <= DaysInMonth(y, m)
    THEN Some(DateTime(y, m, d, 0, 0))
    ELSE None

\* The instant `offset` seconds before t (|offset| < 86400): the UTC instant
\* of the local time t at that offset east of UTC.
sub_offset(t, offset) ==
    LET s == t.secs - offset
    IN  IF s < 0
        THEN IF t.day > 1 THEN [ t EXCEPT !.day = t.day - 1, !.secs = s + 86400 ]
             ELSE IF t.month > 1
                  THEN [ t EXCEPT !.month = t.month - 1,
                                  !.day = DaysInMonth(t.year, t.month - 1),
                                  !.secs = s + 86400 ]
                  ELSE DateTime(t.year - 1, 12, 31, s + 86400, t.frac)
        ELSE IF s >= 86400
        THEN IF t.day < DaysInMonth(t.year, t.month)
             THEN [ t EXCEPT !.day = t.day + 1, !.secs = s - 86400 ]
             ELSE IF t.month < 12
                  THEN [ t EXCEPT !.month = t.month + 1, !.day = 1,
                                  !.secs = s - 86400 ]
                  ELSE DateTime(t.year + 1, 1, 1, s - 86400, t.frac)
        ELSE [ t EXCEPT !.secs = s ]

\* ------------------------------------------------------------------ text

IsDigit(c) == c >= 48 /\ c <= 57

\* n as w digits, zero padded (the low w digits of n).
RECURSIVE Padded(_, _)
Padded(n, w) ==
    IF w = 0 THEN << >> ELSE Append(Padded(n \div 10, w - 1), 48 + (n % 10))

\* n as two digits.
Pad2(n) == << 48 + (n \div 10), 48 + (n % 10) >>

\* n as four digits.
Pad4(n) ==
    << 48 + (n \div 1000), 48 + ((n \div 100) % 10),
       48 + ((n \div 10) % 10), 48 + (n % 10) >>

\* The number of decimal digits of n >= 0.
RECURSIVE DigitCount(_)
DigitCount(n) == IF n < 10 THEN 1 ELSE 1 + DigitCount(n \div 10)

\* A year as chrono writes it: four digits for 0..9999, else a sign and at
\* least four digits ("{:+05}").
YearText(y) ==
    IF y >= 0 /\ y <= 9999 THEN Pad4(y)
    ELSE LET a == IF y < 0 THEN -y ELSE y
             w == IF DigitCount(a) < 4 THEN 4 ELSE DigitCount(a)
         IN  << IF y < 0 THEN 45 ELSE 43 >> \o Padded(a, w)

\* "-MM-DD"
MonthDayText(t) == << 45 >> \o Pad2(t.month) \o << 45 >> \o Pad2(t.day)

\* "THH:MM:SS"; a leap second is written as second 60.
TimeText(t) ==
    << 84 >> \o Pad2(t.secs \div 3600)
        \o << 58 >> \o Pad2((t.secs \div 60) % 60)
        \o << 58 >> \o Pad2((t.secs % 60) + (IF t.frac >= 1000000000 THEN 1 ELSE 0))

\* SecondsFormat::AutoSi: nothing, or "." and 3, 6 or 9 digits.
FractionText(t) ==
    LET nano == t.frac % 1000000000
    IN  IF nano = 0 THEN << >>
        ELSE IF nano % 1000000 = 0 THEN << 46 >> \o Padded(nano \div 1000000, 3)
        ELSE IF nano % 1000 = 0 THEN << 46 >> \o Padded(nano \div 1000, 6)
        ELSE << 46 >> \o Padded(nano, 9)

\* "+00:00"
UtcOffset == << 43, 48, 48, 58, 48, 48 >>

\* DateTime<Utc>::to_rfc3339(): seconds with an automatic fraction (none when
\* the instant is a whole second) and the offset written "+00:00".
to_rfc3339(t) ==
    YearText(t.year) \o MonthDayText(t) \o TimeText(t) \o FractionText(t)
        \o UtcOffset

\* date.format("%Y-%m-%d").to_string()
format_ymd(t) == YearText(t.year) \o MonthDayText(t)

\* The length in bytes of the white-space character (char::is_whitespace,
\* UTF-8) at the head of s, 0 when s does not start with one.
WhiteLen(s) ==
    IF s = << >> THEN 0
    ELSE IF s[1] \in { 9, 10, 11, 12, 13, 32 } THEN 1
    ELSE IF Len(s) >= 2 /\ s[1] = 194 /\ s[2] \in { 133, 160 } THEN 2
    ELSE IF /\ Len(s) >= 3
            /\ \/ s[1] = 225 /\ s[2] = 154 /\ s[3] = 128
               \/ s[1] = 226 /\ s[2] = 128
                    /\ (s[3] \in 128..138 \/ s[3] \in { 168, 169, 175 })
               \/ s[1] = 226 /\ s[2] = 129 /\ s[3] = 159
               \/ s[1] = 227 /\ s[2] = 128 /\ s[3] = 128
         THEN 3
    ELSE 0

\* str::trim_start
RECURSIVE trim_start(_)
trim_start(s) ==
    IF WhiteLen(s) = 0 THEN s
    ELSE trim_start(SubSeq(s, WhiteLen(s) + 1, Len(s)))

\* The number of ASCII digits at the head of s, counted up to max.
DigitRun(s, max) ==
    LET lim == IF Len(s) < max THEN Len(s) ELSE max
        other == { i \in 1..lim : ~IsDigit(s[i]) }
    IN  IF other = { } THEN lim
        ELSE (CHOOSE i \in other : \A j \in other : i <= j) - 1

\* The value of the first n digits of s.  Nine digits are exact; a longer
\* number stays at 999999999, which is out of range wherever such a number
\* can be read (a signed year).
RECURSIVE DigitsValue(_, _)
DigitsValue(s, n) ==
    IF n = 0 THEN 0
    ELSE LET v == DigitsValue(s, n - 1)
         IN  IF v > 99999999 THEN 999999999 ELSE v * 10 + (s[n] - 48)

\* The value of the two digits of s at positions i and i + 1.
TwoDigits(s, i) == (s[i] - 48) * 10 + (s[i + 1] - 48)

Scanned(val, rest) == [ ok |-> TRUE, val |-> val, rest |-> rest ]

NoScan == [ ok |-> FALSE, val |-> 0, rest |-> << >> ]

\* scan::number(s, min, max): between min and max leading digits.
number(s, min, max) ==
    LET n == DigitRun(s, max)
    IN  IF n < min THEN NoScan
        ELSE Scanned(DigitsValue(s, n), SubSeq(s, n + 1, Len(s)))

\* scan::char(s, c): s without its first byte c.
char(s, c) ==
    IF s # << >> /\ s[1] = c THEN Scanned(c, Tail(s)) ELSE NoScan

\* The year of %Y in t, which has no leading white space: after a sign any
\* number of digits is read, without one at most four.
scan_year(t) ==
    LET signed == t # << >> /\ t[1] \in { 43, 45 }
        r == number(IF signed THEN Tail(t) ELSE t, 1,
                    IF signed THEN Len(t) ELSE 4)
    IN  IF r.ok /\ t[1] = 45 THEN Scanned(0 - r.val, r.rest) ELSE r

\* The factor that takes a fraction of n digits to nanoseconds.
RECURSIVE Scale(_)
Scale(n) == IF n >= 9 THEN 1 ELSE 10 * Scale(n + 1)

\* scan::nanosecond(s): one to nine digits scaled to nanoseconds; digits
\* after the ninth are skipped.
nanosecond(s) ==
    LET n == DigitRun(s, 9)
    IN  IF n < 1 THEN NoScan
        ELSE Scanned(DigitsValue(s, n) * Scale(n),
                     SubSeq(s, DigitRun(s, Len(s)) + 1, Len(s)))

\* scan::timezone_offset(s, colon, true, false, true): "Z" or "z", or a
\* sign ("+", "-" or U+2212), two digits of hours, ":" and two digits of
\* minutes below 60; the offset in seconds east of UTC.
timezone_offset(s) ==
    IF s # << >> /\ s[1] \in { 90, 122 } THEN Scanned(0, Tail(s))
    ELSE LET minus == Len(s) >= 3 /\ s[1] = 226 /\ s[2] = 136 /\ s[3] = 146
             signed == s # << >> /\ (s[1] \in { 43, 45 } \/ minus)
             negative == s[1] # 43
             t == IF minus THEN SubSeq(s, 4, Len(s)) ELSE Tail(s)
         IN  IF /\ signed
                /\ Len(t) >= 5
                /\ IsDigit(t[1]) /\ IsDigit(t[2])
                /\ t[3] = 58
                /\ t[4] >= 48 /\ t[4] <= 53 /\ IsDigit(t[5])
             THEN LET seconds == (TwoDigits(t, 1) * 60 + TwoDigits(t, 4)) * 60
                  IN  Scanned(IF negative THEN 0 - seconds ELSE seconds,
                              SubSeq(t, 6, Len(t)))
             ELSE NoScan

\* chrono's Parsed, the fields read so far, with the input still to be
\* read; ok is FALSE once an item has failed.
Parsed(s) ==
    [ ok |-> TRUE, rest |-> s, year |-> 0, month |-> 0, day |-> 0,
      hour |-> 0, minute |-> 0, second |-> 0, nanosecond |-> 0, offset |-> 0 ]

\* Parsed::set_year and the like after the scan r: the field takes the
\* value and the input moves on, or the parse fails.
set(p, field, r) ==
    IF r.ok THEN [ p EXCEPT ![field] = r.val, !.rest = r.rest ]
    ELSE [ p EXCEPT !.ok = FALSE ]

\* A literal after the scan r: the input moves on, or the parse fails.
skip(p, r) ==
    IF r.ok THEN [ p EXCEPT !.rest = r.rest ] ELSE [ p EXCEPT !.ok = FALSE ]

\* One item of a format string read from the input: a numeric item, which
\* skips white space and takes a variable number of digits, or the
\* literal "-".
item(p, it) ==
    CASE it = "%Y" -> set(p, "year", scan_year(trim_start(p.rest)))
      [] it = "%m" -> set(p, "month", number(trim_start(p.rest), 1, 2))
      [] it = "%d" -> set(p, "day", number(trim_start(p.rest), 1, 2))
      [] it = "-" -> skip(p, char(p.rest, 45))

\* The items read one after the other, up to the first that fails.
RECURSIVE parse(_, _)
parse(p, items) ==
    IF items = << >> \/ ~p.ok THEN p
    ELSE parse(item(p, Head(items)), Tail(items))

\* The items of the format "%Y-%m-%d".
YmdItems == << "%Y", "-", "%m", "-", "%d" >>

\* Parsed::to_naive_date of a parse that read all of the input, taken to
\* midnight UTC; None when the parse failed or input is left over.
to_naive_date(p) ==
    IF p.ok /\ p.rest = << >> THEN from_ymd_opt(p.year, p.month, p.day)
    ELSE None

\* NaiveDate::parse_from_str(s, "%Y-%m-%d").ok(), taken to midnight UTC.
parse_naive_date(s) == to_naive_date(parse(Parsed(s), YmdItems))

\* parse_rfc3339 up to the seconds: YYYY-MM-DD, "T", "t" or " ", and
\* HH:MM:SS; every field has its fixed number of digits.
rfc3339_fields(s) ==
    IF /\ Len(s) >= 19
       /\ \A i \in { 1, 2, 3, 4, 6, 7, 9, 10, 12, 13, 15, 16, 18, 19 } : IsDigit(s[i])
       /\ s[5] = 45 /\ s[8] = 45
       /\ s[11] \in { 84, 116, 32 }
       /\ s[14] = 58 /\ s[17] = 58
    THEN [ ok |-> TRUE, rest |-> SubSeq(s, 20, Len(s)),
           year |-> TwoDigits(s, 1) * 100 + TwoDigits(s, 3),
           month |-> TwoDigits(s, 6), day |-> TwoDigits(s, 9),
           hour |-> TwoDigits(s, 12), minute |-> TwoDigits(s, 15),
           second |-> TwoDigits(s, 18), nanosecond |-> 0, offset |-> 0 ]
    ELSE [ Parsed(s) EXCEPT !.ok = FALSE ]

\* parse_rfc3339 after the seconds: "." and a fraction of a second, or
\* nothing.
rfc3339_fraction(p) ==
    IF ~p.ok THEN p
    ELSE IF p.rest # << >> /\ p.rest[1] = 46
    THEN set(p, "nanosecond", nanosecond(Tail(p.rest)))
    ELSE p

\* parse_rfc3339 after the fraction: the offset.
rfc3339_offset(p) ==
    IF ~p.ok THEN p ELSE set(p, "offset", timezone_offset(p.rest))

\* Parsed::to_datetime of a parse that read all of the input, as the UTC
\* instant: the offset is within a day, the time of day exists (second 60
\* is a leap second) and so does the date.
to_datetime(p) ==
    IF /\ p.ok
       /\ p.rest = << >>
       /\ p.offset >= -86340 /\ p.offset <= 86340
       /\ p.hour <= 23 /\ p.minute <= 59 /\ p.second <= 60
       /\ from_ymd_opt(p.year, p.month, p.day) # None
    THEN Some(sub_offset(
             DateTime(p.year, p.month, p.day,
                      p.hour * 3600 + p.minute * 60
                        + (IF p.second = 60 THEN 59 ELSE p.second),
                      p.nanosecond + (IF p.second = 60 THEN 1000000000 ELSE 0)),
             p.offset))
    ELSE None

\* DateTime::parse_from_rfc3339(s).ok().map(|d| d.with_timezone(&Utc)).
parse_from_rfc3339(s) ==
    to_datetime(rfc3339_offset(rfc3339_fraction(rfc3339_fields(s))))

\* SQLite's BINARY collation on TEXT: memcmp of the common prefix, then the
\* shorter string first.
RECURSIVE TextLess(_, _)
TextLess(a, b) ==
    IF b = << >> THEN FALSE
    ELSE IF a = << >> THEN TRUE
    ELSE IF Head(a) # Head(b) THEN Head(a) < Head(b)
    ELSE TextLess(Tail(a), Tail(b))

\* ------------------------------------------------------------------ models.rs

\* Task::new at clock reading t.
Task_new(title, description, due_date, priority, t) ==
    [ id |-> None, title |-> title, description |-> description,
      due_date |-> due_date, priority |-> priority, completed |-> FALSE,
      created_at |-> t, updated_at |-> t ]

\* Variant of priority_text: every ordinal above 1 is rendered HIGH.
priority_text_clamped(task) ==
    IF task.priority = 0 THEN "LOW"
    ELSE IF task.priority = 1 THEN "MEDIUM"
    ELSE "HIGH"

\* Task::priority_text.
priority_text(task) ==
    IF task.priority = 0 THEN "LOW"
    ELSE IF task.priority = 1 THEN "MEDIUM"
    ELSE IF task.priority = 2 THEN "HIGH"
    ELSE "MEDIUM"

\* Task::due_date_text: the due date as %Y-%m-%d text, or a placeholder
\* (ASCII codes of "No due date").
NoDueDate == << 78, 111, 32, 100, 117, 101, 32, 100, 97, 116, 101 >>

due_date_text(task) ==
    IF task.due_date = None THEN NoDueDate ELSE format_ymd(task.due_date[1])

\* Variant of is_overdue: a due date equal to the clock reading is overdue.
is_overdue_inclusive(task, t) ==
    IF task.completed THEN FALSE
    ELSE IF task.due_date = None THEN FALSE
    ELSE ~Before(t, task.due_date[1])

\* Task::is_overdue, with t the reading of Utc::now() it takes.
is_overdue(task, t) ==
    IF task.completed THEN FALSE
    ELSE IF task.due_date = None THEN FALSE
    ELSE Before(task.due_date[1], t)

\* ------------------------------------------------------------------ db.rs

Ids(rs) == { rs[i].id : i \in DOMAIN rs }

MaxOf(S) == CHOOSE m \in S : \A x \in S : x <= m

\* Variant of NextRowid: the row count + 1 instead of the largest rowid + 1.
NextRowid_count(rs) == Len(rs) + 1

\* The rowid SQLite gives a row inserted into an INTEGER PRIMARY KEY table
\* without a value for the key: 1 in an empty table, else the largest + 1.
NextRowid(rs) == IF rs = << >> THEN 1 ELSE MaxOf(Ids(rs)) + 1

\* Database::add_task: the table after the INSERT.  The row is appended, so
\* the sequence stays in rowid order, the order of a table scan.
Database_add_task(rs, task) ==
    Append(rs,
        [ id |-> NextRowid(rs),
          title |-> task.title,
          description |-> task.description,
          due_date |-> IF task.due_date = None THEN None
                       ELSE to_rfc3339(task.due_date[1]),
          priority |-> task.priority,
          completed |-> task.completed,
          created_at |-> to_rfc3339(task.created_at),
          updated_at |-> to_rfc3339(task.updated_at) ])

\* Database::add_task: its return value, last_insert_rowid().
last_insert_rowid(rs) == NextRowid(rs)

\* The closure of query_map in get_all_tasks and get_task_by_id: a row as a Task.
row_to_task(r) ==
    [ id |-> Some(r.id), title |-> r.title, description |-> r.description,
      due_date |-> IF r.due_date = None THEN None
                   ELSE parse_from_rfc3339(r.due_date),
      priority |-> r.priority, completed |-> r.completed,
      created_at |-> parse_from_rfc3339(r.created_at)[1],
      updated_at |-> parse_from_rfc3339(r.updated_at)[1] ]

\* Variant of Matches: the completed condition is left out.
Matches_all(r, include_completed, priority_filter) ==
    priority_filter = None \/ r.priority = priority_filter[1]

\* WHERE clause built by get_all_tasks; priority_filter is an Option<i32>.
Matches(r, include_completed, priority_filter) ==
    /\ (include_completed \/ r.completed = FALSE)
    /\ (priority_filter = None \/ r.priority = priority_filter[1])

\* Variant of RowBefore: priority ascending.
RowBefore_asc(a, b) ==
    \/ a.priority < b.priority
    \/ a.priority = b.priority /\ TextLess(a.created_at, b.created_at)

\* ORDER BY priority DESC, created_at ASC; created_at is a TEXT column.
RowBefore(a, b) ==
    \/ a.priority > b.priority
    \/ a.priority = b.priority /\ TextLess(a.created_at, b.created_at)

RECURSIVE InsertRow(_, _)
InsertRow(sorted, r) ==
    IF sorted = << >> THEN << r >>
    ELSE IF RowBefore(r, Head(sorted)) THEN << r >> \o sorted
    ELSE << Head(sorted) >> \o InsertRow(Tail(sorted), r)

\* The sorter: rows that compare equal keep their scan order.
RECURSIVE OrderBy(_)
OrderBy(rs) ==
    IF rs = << >> THEN << >>
    ELSE InsertRow(OrderBy(SubSeq(rs, 1, Len(rs) - 1)), rs[Len(rs)])

\* Database::get_all_tasks
get_all_tasks(rs, include_completed, priority_filter) ==
    LET hit(r) == Matches(r, include_completed, priority_filter)
        sorted == OrderBy(SelectSeq(rs, hit))
    IN  [ i \in DOMAIN sorted |-> row_to_task(sorted[i]) ]

\* Database::get_task_by_id: the first row of the result, as an Option<Task>.
get_task_by_id(rs, id) ==
    LET hit(r) == r.id = id
        found == SelectSeq(rs, hit)
    IN  IF found = << >> THEN None ELSE Some(row_to_task(Head(found)))

\* Variant of Database_update_task: updated_at is taken from the task.
Database_update_task_carried(rs, id, task, t) ==
    [ i \in DOMAIN rs |->
        IF rs[i].id = id
        THEN [ rs[i] EXCEPT
                 !.title = task.title,
                 !.description = task.description,
                 !.due_date = IF task.due_date = None THEN None
                              ELSE to_rfc3339(task.due_date[1]),
                 !.priority = task.priority,
                 !.completed = task.completed,
                 !.updated_at = to_rfc3339(task.updated_at) ]
        ELSE rs[i] ]

\* Database::update_task at clock reading t: the table after the UPDATE.
Database_update_task(rs, id, task, t) ==
    [ i \in DOMAIN rs |->
        IF rs[i].id = id
        THEN [ rs[i] EXCEPT
                 !.title = task.title,
                 !.description = task.description,
                 !.due_date = IF task.due_date = None THEN None
                              ELSE to_rfc3339(task.due_date[1]),
                 !.priority = task.priority,
                 !.completed = task.completed,
                 !.updated_at = to_rfc3339(t) ]
        ELSE rs[i] ]

\* Variant of Database_delete_task: the WHERE clause is left out.
Database_delete_task_nowhere(rs, id) == << >>

\* Database::delete_task: the table after the DELETE.
Database_delete_task(rs, id) ==
    LET keep(r) == r.id # id IN SelectSeq(rs, keep)

\* Variant of Database_complete_task: the WHERE clause is left out.
Database_complete_task_nowhere(rs, id, t) ==
    [ i \in DOMAIN rs |->
        [ rs[i] EXCEPT !.completed = TRUE, !.updated_at = to_rfc3339(t) ] ]

\* Variant of Database_complete_task: the timestamp goes to the wrong column.
Database_complete_task_created(rs, id, t) ==
    [ i \in DOMAIN rs |->
        IF rs[i].id = id
        THEN [ rs[i] EXCEPT !.completed = TRUE, !.created_at = to_rfc3339(t) ]
        ELSE rs[i] ]

\* Database::complete_task at clock reading t: the table after the UPDATE.
Database_complete_task(rs, id, t) ==
    [ i \in DOMAIN rs |->
        IF rs[i].id = id
        THEN [ rs[i] EXCEPT !.completed = TRUE, !.updated_at = to_rfc3339(t) ]
        ELSE rs[i] ]

\* Database::task_exists: COUNT(*) > 0.
task_exists(rs, id) ==
    Cardinality({ i \in DOMAIN rs : rs[i].id = id }) > 0

\* ------------------------------------------------------------------ main.rs

\* Priority::to_int
to_int(p) ==
    CASE p = "Low" -> 0
      [] p = "Medium" -> 1
      [] p = "High" -> 2

\* Priority::from_int
from_int(value) ==
    CASE value = 0 -> "Low"
      [] value = 1 -> "Medium"
      [] value = 2 -> "High"
      [] OTHER -> "Medium"

\* ------------------------------------------------------------------ commands.rs

Ok(v) == [ ok |-> TRUE, val |-> v, err |-> "" ]

Err(msg) == [ ok |-> FALSE, val |-> None, err |-> msg ]

NotFound == "Task with ID not found"

InvalidFormat == "Invalid date format. Please use YYYY-MM-DD or RFC3339 format"

NotFuture == "Due date must be in the future"

\* `parsed` in parse_due_date: the date when the string parses as
\* %Y-%m-%d, else the instant when it parses as RFC 3339; None where the
\* code returns the format error.
parsed(naive_date, datetime) ==
    IF naive_date # None THEN naive_date ELSE datetime

\* The rest of parse_due_date on what was parsed, with Utc::now() reading t.
future(p, t) ==
    IF p = None THEN Err(InvalidFormat)
    ELSE IF Before(p[1], t) THEN Err(NotFuture)
    ELSE Ok(p[1])

\* parse_due_date(date_str) with Utc::now() reading t: Ok(instant) or Err.
parse_due_date(date_str, t) ==
    future(parsed(parse_naive_date(date_str), parse_from_rfc3339(date_str)), t)

\* ------------------------------------------------------------------ inputs

\* The k-th reading of the clock: 2026-01-01T00:00:00 UTC plus k half seconds.
Clock(k) == DateTime(2026, 1, 1, k \div 2, (k % 2) * 500000000)

\* The number of the reading t.
ClockIndex(t) == 2 * t.secs + (t.frac \div 500000000)

\* A later reading of Utc::now() in a call that saw the clock at t: the
\* clock never goes backwards and may or may not have moved on.
ClockFrom(t) ==
    { t } \cup { Clock(k) : k \in { ClockIndex(t) + 1 } \cap 0..MaxTicks }

Titles == { "", "a" }

Priorities == { "Low", "Medium", "High" }

\* "2026-01-01": the day of the first reading of the clock.
DueFirstReading == << 50, 48, 50, 54, 45, 48, 49, 45, 48, 49 >>

\* "2027-01-01"
DueNextYear == << 50, 48, 50, 55, 45, 48, 49, 45, 48, 49 >>

\* "2027-01-01T01:00:00+01:00": the same instant, written with an offset.
DueNextYearOffset == << 50, 48, 50, 55, 45, 48, 49, 45, 48, 49, 84, 48, 49, 58, 48, 48, 58, 48, 48, 43, 48, 49, 58, 48, 48 >>

\* "+10000-01-01": a year of more than four digits, written with its sign.
DueYear10000 == << 43, 49, 48, 48, 48, 48, 45, 48, 49, 45, 48, 49 >>

\* "invalid-date"
InvalidDate == << 105, 110, 118, 97, 108, 105, 100, 45, 100, 97, 116, 101 >>

\* Command-line due dates.
DueStrings ==
    { DueFirstReading, DueNextYear, DueNextYearOffset, DueYear10000,
      InvalidDate }

Args(title, description, due_date, priority) ==
    [ title |-> title, description |-> description,
      due_date |-> due_date, priority |-> priority ]

\* Arguments of the add command.
AddArgs ==
    { Args("a", None, None, p) : p \in Priorities }
        \cup { Args("a", Some("d"), Some(d), "Medium") : d \in DueStrings }
        \cup { Args("", None, None, "Medium") }

\* Arguments of the update command: each override alone, none, and all.
UpdateArgs ==
    { Args(Some(t), None, None, None) : t \in Titles }
        \cup { Args(None, Some("d"), None, None), Args(None, None, None, None) }
        \cup { Args(None, None, Some(d), None) : d \in DueStrings }
        \cup { Args(None, None, None, Some(p)) : p \in { "Low", "High" } }
        \cup { Args(Some(""), Some("d"), Some(d), Some("High")) :
                   d \in { DueFirstReading, DueNextYear, InvalidDate } }

\* Ids a caller may pass: with at most MaxRows < MaxId rows stored, one of
\* them is always missing from the table.
IdArgs == 1..MaxId

\* Tasks handed to Database::add_task: built by Task::new at reading t.
\* Priority 7 is out of range; the due date may be the instant of the call.
NewTasks(t) ==
    { Task_new("a", None, None, p, t) : p \in { 0, 2, 7 } }
        \cup { Task_new("b", Some("d"), Some(t), 1, t) }

Edited(id, due_date, completed) ==
    [ id |-> id, title |-> "c", description |-> None, due_date |-> due_date,
      priority |-> 2, completed |-> completed,
      created_at |-> Clock(MaxTicks), updated_at |-> Clock(0) ]

\* Tasks handed to Database::update_task: they carry an id and timestamps
\* of their own, which need not be those of the stored row.
EditedTasks ==
    { Edited(None, None, FALSE),
      Edited(Some(MaxId + 1), Some(Clock(1)), TRUE) }

Returned(op, id, result) == [ op |-> op, id |-> id, result |-> result ]

\* ------------------------------------------------------------------ state

Init ==
    /\ rows = << >>
    /\ now = Clock(0)
    /\ ret = Returned("init", 0, "Ok")
    /\ writes = 0

\* Time passes between two calls.
Tick ==
    /\ ClockIndex(now) < MaxTicks
    /\ now' = Clock(ClockIndex(now) + 1)
    /\ UNCHANGED <<rows, ret, writes>>

\* A direct call that writes to the table is counted.
Called ==
    /\ writes < MaxWrites
    /\ writes' = writes + 1

\* A command that writes to the table is counted.
Written ==
    /\ writes < MaxCommands
    /\ writes' = writes + 1

\* ------------------------------------------------------------------ commands

\* commands::add_task
add_task(title, description, due_date, priority) ==
    LET due == IF due_date = None THEN Ok(None)
               ELSE parse_due_date(due_date[1], now)
    IN  IF ~due.ok
        THEN /\ ret' = Returned("add", 0, due.err)
             /\ UNCHANGED <<rows, now, writes>>
        ELSE \E t \in ClockFrom(now) :
             LET task == Task_new(title, description,
                                  IF due_date = None THEN None ELSE Some(due.val),
                                  to_int(priority), t)
             IN  /\ Len(rows) < MaxRows
                 /\ NextRowid(rows) <= MaxId
                 /\ Written
                 /\ rows' = Database_add_task(rows, task)
                 /\ now' = t
                 /\ ret' = Returned("add", last_insert_rowid(rows), "Ok")

\* commands::list_tasks; what is returned is recorded with the task count
\* it prints.
list_tasks(include_completed, priority_filter) ==
    LET priority_int == IF priority_filter = None THEN None
                        ELSE Some(to_int(priority_filter[1]))
        tasks == get_all_tasks(rows, include_completed, priority_int)
    IN  /\ ret' = Returned("list", Len(tasks), "Ok")
        /\ UNCHANGED <<rows, now, writes>>

\* Variant of complete_task: the existence check is left out.
complete_task_unchecked(id) ==
    /\ Written
    /\ rows' = Database_complete_task(rows, id, now)
    /\ ret' = Returned("complete", id, "Ok")
    /\ UNCHANGED now

\* commands::complete_task
complete_task(id) ==
    IF ~task_exists(rows, id)
    THEN /\ ret' = Returned("complete", id, NotFound)
         /\ UNCHANGED <<rows, now, writes>>
    ELSE /\ Written
         /\ rows' = Database_complete_task(rows, id, now)
         /\ ret' = Returned("complete", id, "Ok")
         /\ UNCHANGED now

\* commands::delete_task
delete_task(id) ==
    IF ~task_exists(rows, id)
    THEN /\ ret' = Returned("delete", id, NotFound)
         /\ UNCHANGED <<rows, now, writes>>
    ELSE /\ Written
         /\ rows' = Database_delete_task(rows, id)
         /\ ret' = Returned("delete", id, "Ok")
         /\ UNCHANGED now

\* commands::update_task
update_task(id, title, description, due_date, priority) ==
    IF ~task_exists(rows, id)
    THEN /\ ret' = Returned("update", id, NotFound)
         /\ UNCHANGED <<rows, now, writes>>
    ELSE LET task0 == get_task_by_id(rows, id)[1]
             task1 == [ task0 EXCEPT
                          !.title = IF title = None THEN @ ELSE title[1] ]
             task2 == [ task1 EXCEPT
                          !.description = IF description = None THEN @
                                          ELSE Some(description[1]) ]
             due == IF due_date = None THEN Ok(None)
                    ELSE parse_due_date(due_date[1], now)
             task3 == [ task2 EXCEPT
                          !.due_date = IF due_date = None THEN @
                                       ELSE Some(due.val) ]
             task4 == [ task3 EXCEPT
                          !.priority = IF priority = None THEN @
                                       ELSE to_int(priority[1]) ]
         IN  IF ~due.ok
             THEN /\ ret' = Returned("update", id, due.err)
                  /\ UNCHANGED <<rows, now, writes>>
             ELSE \E t \in ClockFrom(now) : \E u \in ClockFrom(t) :
                  LET task5 == [ task4 EXCEPT !.updated_at = t ]
                  IN  /\ Written
                      /\ rows' = Database_update_task(rows, id, task5, u)
                      /\ now' = u
                      /\ ret' = Returned("update", id, "Ok")

\* commands::show_task
show_task(id) ==
    /\ ret' = Returned("show", id,
                       IF get_task_by_id(rows, id) = None THEN NotFound ELSE "Ok")
    /\ UNCHANGED <<rows, now, writes>>

\* ------------------------------------------------------------------ direct calls

\* Database::add_task called with a Task.
DbAddTask(task) ==
    /\ Len(rows) < MaxRows
    /\ NextRowid(rows) <= MaxId
    /\ Called
    /\ rows' = Database_add_task(rows, task)
    /\ ret' = Returned("db_add", last_insert_rowid(rows), "Ok")
    /\ UNCHANGED now

\* Database::update_task called with any id and any Task.
DbUpdateTask(id, task) ==
    /\ Called
    /\ rows' = Database_update_task(rows, id, task, now)
    /\ ret' = Returned("db_update", id, "Ok")
    /\ UNCHANGED now

\* Database::complete_task called with any id.
DbCompleteTask(id) ==
    /\ Called
    /\ rows' = Database_complete_task(rows, id, now)
    /\ ret' = Returned("db_complete", id, "Ok")
    /\ UNCHANGED now

\* Database::delete_task called with any id.
DbDeleteTask(id) ==
    /\ Called
    /\ rows' = Database_delete_task(rows, id)
    /\ ret' = Returned("db_delete", id, "Ok")
    /\ UNCHANGED now

CliNext ==
    \/ Tick
    \/ \E a \in AddArgs : add_task(a.title, a.description, a.due_date, a.priority)
    \/ \E ic \in BOOLEAN, pf \in { None, Some("High") } : list_tasks(ic, pf)
    \/ \E id \in IdArgs : complete_task(id)
    \/ \E id \in IdArgs : delete_task(id)
    \/ \E id \in IdArgs, a \in UpdateArgs :
          update_task(id, a.title, a.description, a.due_date, a.priority)
    \/ \E id \in IdArgs : show_task(id)

DbNext ==
    \/ \E task \in NewTasks(now) : DbAddTask(task)
    \/ \E id \in IdArgs, task \in EditedTasks : DbUpdateTask(id, task)
    \/ \E id \in IdArgs : DbCompleteTask(id)
    \/ \E id \in IdArgs : DbDeleteTask(id)

Next == Tick \/ DbNext

\* Direct calls on the Database, in any order.
Spec == Init /\ [][Next]_vars

\* The commands of the CLI only.
CliSpec == Init /\ [][CliNext]_vars

\* ------------------------------------------------------------------ properties

Present(rs, id) == \E i \in DOMAIN rs : rs[i].id = id

IdSeq(rs) == [ i \in DOMAIN rs |-> rs[i].id ]

\* s with its k-th element removed.
Without(s, k) == SubSeq(s, 1, k - 1) \o SubSeq(s, k + 1, Len(s))

\* C1: in every step the stored rows have pairwise different ids; a step
\* that adds a row returns an id no row had before; and every row that
\* stays stored keeps its id (the rows' ids are the same, the same plus the
\* new one, or the same less the deleted one).
C1_IdsUniqueAndStable ==
    [][ /\ \A i, j \in DOMAIN rows' : i # j => rows'[i].id # rows'[j].id
        /\ \/ IdSeq(rows') = IdSeq(rows)
           \/ /\ IdSeq(rows') = Append(IdSeq(rows), ret'.id)
              /\ ret'.op = "db_add"
              /\ ~Present(rows, ret'.id)
           \/ /\ \E k \in DOMAIN rows : IdSeq(rows') = Without(IdSeq(rows), k)
              /\ ret'.op = "db_delete"
      ]_vars

\* C1 witness: a task has just been created, after an earlier delete, next
\* to another stored task.
C1_Witness ==
    /\ ret.op = "db_add"
    /\ Len(rows) = 2
    /\ rows[2].id = ret.id
    /\ rows[1].id > 1

PriorityFilters == { None } \cup { Some(p) : p \in { 0, 1, 2, 7 } }

\* C2: whatever the arguments, the tasks list returns are in priority
\* order, highest first, and tasks of equal priority are in the order of
\* their creation instants.
C2_ListSorted ==
    \A ic \in BOOLEAN, pf \in PriorityFilters :
        LET l == get_all_tasks(rows, ic, pf)
        IN  \A i, j \in DOMAIN l :
                i < j =>
                    \/ l[i].priority > l[j].priority
                    \/ /\ l[i].priority = l[j].priority
                       /\ ~Before(l[j].created_at, l[i].created_at)

\* C2 witness: two tasks are stored, the higher priority one created
\* later, and list returns it first.
C2_Witness ==
    /\ Len(rows) = 2
    /\ rows[1].priority < rows[2].priority
    /\ rows[1].created_at # rows[2].created_at
    /\ get_all_tasks(rows, TRUE, None)[1].id = Some(rows[2].id)

\* The condition list is to apply, stated on stored rows.
Wanted(r, ic, pf) ==
    (ic \/ ~r.completed) /\ (pf = None \/ r.priority = pf[1])

\* C3: list returns the stored tasks that fit its arguments, each once and
\* nothing else; without a fitting task it returns the empty sequence.
C3_ListExact ==
    \A ic \in BOOLEAN, pf \in PriorityFilters :
        LET l == get_all_tasks(rows, ic, pf)
            fit == { k \in DOMAIN rows : Wanted(rows[k], ic, pf) }
        IN  /\ Len(l) = Cardinality(fit)
            /\ \A k \in fit :
                  Cardinality({ i \in DOMAIN l : l[i] = row_to_task(rows[k]) }) = 1
            /\ \A i \in DOMAIN l : \E k \in fit : l[i] = row_to_task(rows[k])
            /\ (~ic => \A i \in DOMAIN l : ~l[i].completed)
            /\ (fit = { } => l = << >>)

\* C3 witness: a task has been completed next to a pending one; list
\* without completed tasks returns only the other, list with them both.
C3_Witness ==
    /\ ret.op = "db_complete"
    /\ Len(get_all_tasks(rows, TRUE, None)) = 2
    /\ Len(get_all_tasks(rows, FALSE, None)) = 1
    /\ get_all_tasks(rows, FALSE, Some(7)) = << >>
    /\ \E i \in DOMAIN rows : rows[i].id = ret.id /\ rows[i].completed

\* What complete(id) is to leave alone in the task it completes.
SameContent(before, after) ==
    /\ after.title = before.title
    /\ after.description = before.description
    /\ after.due_date = before.due_date
    /\ after.priority = before.priority

\* Every task but the one with this id reads back as before the step.
OthersUnchanged(id) ==
    \A j \in IdArgs :
        j # id => get_task_by_id(rows', j) = get_task_by_id(rows, j)

\* C4 as claimed: complete(id) on a stored id sets completed, keeps the
\* other fields and the other tasks, and makes updated_at strictly greater
\* than it was.
C4_CompleteStrictlyLater ==
    [][ \A id \in IdArgs :
            (Present(rows, id) /\ DbCompleteTask(id)) =>
                LET before == get_task_by_id(rows, id)[1]
                    after == get_task_by_id(rows', id)[1]
                IN  /\ after.completed
                    /\ SameContent(before, after)
                    /\ OthersUnchanged(id)
                    /\ Before(before.updated_at, after.updated_at)
      ]_vars

\* C4 amended: complete(id) on a stored id sets completed, keeps the other
\* fields and the other tasks, and sets updated_at to the instant of the
\* call, which is not before its old value (and is after it exactly when
\* the clock has moved on since the task was last written).
C4_CompleteFrame ==
    [][ \A id \in IdArgs :
            (Present(rows, id) /\ DbCompleteTask(id)) =>
                LET before == get_task_by_id(rows, id)[1]
                    after == get_task_by_id(rows', id)[1]
                IN  /\ after.completed
                    /\ SameContent(before, after)
                    /\ OthersUnchanged(id)
                    /\ after.updated_at = now
                    /\ ~Before(after.updated_at, before.updated_at)
      ]_vars

\* C4 witness: a task has been completed at a later instant than it was
\* created, next to a task that is still pending.
C4_Witness ==
    /\ ret.op = "db_complete"
    /\ \E i, j \in DOMAIN rows :
          /\ rows[i].id = ret.id
          /\ rows[i].completed
          /\ Before(row_to_task(rows[i]).created_at,
                    row_to_task(rows[i]).updated_at)
          /\ ~rows[j].completed

\* C5: delete(id) on a stored id leaves get(id) absent and exists(id)
\* false and every other task as it was; and an id that is absent becomes
\* present only by a create that returns it.
C5_DeletedStaysAbsent ==
    [][ \A id \in IdArgs :
            /\ (Present(rows, id) /\ DbDeleteTask(id)) =>
                  /\ get_task_by_id(rows', id) = None
                  /\ ~task_exists(rows', id)
                  /\ OthersUnchanged(id)
            /\ (get_task_by_id(rows, id) = None /\ get_task_by_id(rows', id) # None) =>
                  /\ ret'.op = "db_add"
                  /\ ret'.id = id
      ]_vars

\* C5 witness: a stored task has been deleted (its id is below that of a
\* task still stored, so it was assigned) and is absent.
C5_Witness ==
    /\ ret.op = "db_delete"
    /\ rows # << >>
    /\ ret.id < rows[1].id
    /\ get_task_by_id(rows, ret.id) = None
    /\ ~task_exists(rows, ret.id)

\* C6 as claimed: Database::update_task and Database::complete_task with an
\* id that is not stored return a not-found error and change no row.
C6_MissingIdIsAnError ==
    [][ \A id \in IdArgs :
            ( /\ ~Present(rows, id)
              /\ \/ DbCompleteTask(id)
                 \/ \E task \in EditedTasks : DbUpdateTask(id, task) ) =>
                /\ ret'.result = NotFound
                /\ rows' = rows
      ]_vars

\* C7: a command given an id that is not stored returns the not-found
\* error and leaves the table as it was.
C7_CommandNotFound ==
    [][ \A id \in IdArgs :
            ( /\ ~Present(rows, id)
              /\ \/ complete_task(id)
                 \/ delete_task(id)
                 \/ show_task(id)
                 \/ \E a \in UpdateArgs :
                       update_task(id, a.title, a.description, a.due_date, a.priority) ) =>
                /\ ret'.result = NotFound
                /\ rows' = rows
      ]_vars

\* C7 witness: complete has returned not-found for an id missing from a
\* table that holds another task.
C7_Witness ==
    /\ ret.op = "complete"
    /\ ret.result = NotFound
    /\ rows # << >>
    /\ ~Present(rows, ret.id)

\* The instant a well-formed due-date string denotes; None when malformed.
Instant(d) ==
    IF parse_naive_date(d) # None THEN parse_naive_date(d)
    ELSE parse_from_rfc3339(d)

\* What the claim requires of a command given the due-date string d.
RejectsUnlessLater(d) ==
    Instant(d) # None =>
        IF Before(now, Instant(d)[1]) THEN ret'.result # NotFuture
        ELSE ret'.result = NotFuture

\* C8 as claimed: add and update reject with "must be in the future" every
\* well-formed due date that is not strictly after the current instant, the
\* current instant itself included, and no due date that is after it.
C8_RejectsUnlessLater ==
    [][ /\ \A a \in AddArgs :
              ( /\ a.due_date # None
                /\ add_task(a.title, a.description, a.due_date, a.priority) ) =>
                  RejectsUnlessLater(a.due_date[1])
        /\ \A id \in IdArgs, a \in UpdateArgs :
              ( /\ a.due_date # None
                /\ Present(rows, id)
                /\ update_task(id, a.title, a.description, a.due_date, a.priority) ) =>
                  RejectsUnlessLater(a.due_date[1])
      ]_vars

\* C9 as claimed: no stored task has an empty title.
C9_NoEmptyTitle ==
    \A i \in DOMAIN rows : rows[i].title # ""

\* C10: every stored task was created no later than it was last updated.
C10_CreatedBeforeUpdated ==
    \A i \in DOMAIN rows :
        ~Before(row_to_task(rows[i]).updated_at,
                row_to_task(rows[i]).created_at)

\* C10 witness: a task has been completed and then updated, after the
\* instant of its creation.
C10_Witness ==
    /\ ret.op = "update"
    /\ ret.result = "Ok"
    /\ \E i \in DOMAIN rows :
          /\ rows[i].id = ret.id
          /\ rows[i].completed
          /\ Before(row_to_task(rows[i]).created_at,
                    row_to_task(rows[i]).updated_at)

\* C11: Database::update_task on a stored id sets updated_at to the
\* instant of the call and keeps the row's id and created_at, whatever id
\* and timestamps the task passed in carries; and no step changes the
\* created_at of a task that stays stored.
C11_UpdateStampsNow ==
    [][ /\ \A id \in IdArgs, task \in EditedTasks :
              (Present(rows, id) /\ DbUpdateTask(id, task)) =>
                  LET before == get_task_by_id(rows, id)[1]
                      after == get_task_by_id(rows', id)[1]
                  IN  /\ after.updated_at = now
                      /\ after.id = Some(id)
                      /\ after.created_at = before.created_at
        /\ \A id \in IdArgs :
              (Present(rows, id) /\ Present(rows', id)) =>
                  get_task_by_id(rows', id)[1].created_at
                      = get_task_by_id(rows, id)[1].created_at
      ]_vars

\* C11 witness: a task created at an earlier instant has been updated with
\* a task that carries another id, another created_at and an older
\* updated_at.
C11_Witness ==
    /\ ret.op = "db_update"
    /\ \E i \in DOMAIN rows, task \in EditedTasks :
          /\ rows[i].id = ret.id
          /\ rows[i].title = task.title
          /\ task.id # Some(rows[i].id)
          /\ task.id # None
          /\ row_to_task(rows[i]).updated_at = now
          /\ row_to_task(rows[i]).updated_at # task.updated_at
          /\ row_to_task(rows[i]).created_at # task.created_at

\* C12: a stored task read back at the current instant is overdue exactly
\* when it is not completed, has a due date, and that due date is strictly
\* before the current instant.
C12_OverdueIff ==
    \A i \in DOMAIN rows :
        LET task == row_to_task(rows[i])
            past == /\ task.due_date # None
                    /\ task.due_date[1] # now
                    /\ ~Before(now, task.due_date[1])
        IN  is_overdue(task, now) <=> (~task.completed /\ past)

\* C12 witness: at one instant the store holds a pending task whose due
\* date has passed, which is overdue, and a pending task whose due date is
\* that very instant, which is not.
C12_Witness ==
    \E i, j \in DOMAIN rows :
        /\ ~rows[i].completed
        /\ row_to_task(rows[i]).due_date # None
        /\ Before(row_to_task(rows[i]).due_date[1], now)
        /\ is_overdue(row_to_task(rows[i]), now)
        /\ ~rows[j].completed
        /\ row_to_task(rows[j]).due_date = Some(now)
        /\ ~is_overdue(row_to_task(rows[j]), now)

\* C13 as claimed: a task the add command creates and stores is returned by
\* get_task_by_id under the returned id with the title, description,
\* priority and due-date instant it was given, not completed, with
\* created_at and updated_at the instant it was built at; and a due date
\* given as a calendar date is rendered from the task read back as that
\* same calendar date.
C13_CreateGetRoundTrip ==
    [][ \A a \in AddArgs :
          ( /\ ret'.op = "add"
            /\ ret'.result = "Ok"
            /\ add_task(a.title, a.description, a.due_date, a.priority) ) =>
              LET got == get_task_by_id(rows', ret'.id)
              IN  /\ got # None
                  /\ got[1].id = Some(ret'.id)
                  /\ got[1].title = a.title
                  /\ got[1].description = a.description
                  /\ got[1].priority = to_int(a.priority)
                  /\ got[1].due_date
                       = (IF a.due_date = None THEN None
                          ELSE Instant(a.due_date[1]))
                  /\ got[1].completed = FALSE
                  /\ got[1].created_at = now'
                  /\ got[1].updated_at = now'
                  /\ ( /\ a.due_date # None
                       /\ parse_naive_date(a.due_date[1]) # None )
                       => due_date_text(got[1])
                            = format_ymd(parse_naive_date(a.due_date[1])[1])
      ]_vars

\* The label the claim gives to a priority ordinal.
Label(ordinal) ==
    CASE ordinal = 0 -> "LOW"
      [] ordinal = 2 -> "HIGH"
      [] OTHER -> "MEDIUM"

\* C14: every stored task, whatever ordinal its priority column holds, is
\* read back and rendered with the label LOW for 0, HIGH for 2 and MEDIUM
\* for 1 and for every other integer; Priority::from_int falls back to
\* Medium in the same way, and from_int(to_int(p)) = p for the three
\* priorities.
C14_PriorityLabels ==
    /\ \A i \in DOMAIN rows :
          priority_text(row_to_task(rows[i])) = Label(rows[i].priority)
    /\ \A value \in -1..8 :
          from_int(value) = CASE value = 0 -> "Low"
                              [] value = 2 -> "High"
                              [] OTHER -> "Medium"
    /\ \A p \in Priorities : from_int(to_int(p)) = p

\* C14 witness: a task stored with the out-of-range priority 7 is read
\* back with that ordinal and rendered MEDIUM.
C14_Witness ==
    \E i \in DOMAIN rows :
        /\ row_to_task(rows[i]).priority = 7
        /\ priority_text(row_to_task(rows[i])) = "MEDIUM"

\* A due-date string that does not pass validation at the current instant:
\* malformed, or an instant that is not in the future.
FailsValidation(d) ==
    \/ Instant(d) = None
    \/ ~Before(now, Instant(d)[1])

ValidationErrors == { InvalidFormat, NotFuture }

\* C15 as claimed: add and update (of a stored task) given a due-date
\* string that is malformed or not in the future return a validation error
\* and leave the store exactly as it was.
C15_RejectedLeavesStore ==
    [][ /\ \A a \in AddArgs :
              ( /\ a.due_date # None
                /\ FailsValidation(a.due_date[1])
                /\ add_task(a.title, a.description, a.due_date, a.priority) )
                => (ret'.result \in ValidationErrors /\ rows' = rows)
        /\ \A id \in IdArgs, a \in UpdateArgs :
              ( /\ Present(rows, id)
                /\ a.due_date # None
                /\ FailsValidation(a.due_date[1])
                /\ update_task(id, a.title, a.description, a.due_date,
                               a.priority) )
                => (ret'.result \in ValidationErrors /\ rows' = rows)
      ]_vars

\* C16 as claimed: a successful update command on a stored id leaves the
\* task with each of title, description, due date and priority equal to the
\* override when one is supplied and to the stored value when none is, and
\* with the same completed flag, id and created_at; and no step of the
\* commands takes a stored task from completed back to pending.
C16_UpdateOnlySupplied ==
    [][ /\ \A id \in IdArgs, a \in UpdateArgs :
              ( /\ Present(rows, id)
                /\ ret' = Returned("update", id, "Ok")
                /\ update_task(id, a.title, a.description, a.due_date,
                               a.priority) ) =>
                  LET before == get_task_by_id(rows, id)[1]
                      after == get_task_by_id(rows', id)[1]
                  IN  /\ after.title = (IF a.title = None THEN before.title
                                        ELSE a.title[1])
                      /\ after.description
                           = (IF a.description = None THEN before.description
                              ELSE a.description)
                      /\ after.due_date
                           = (IF a.due_date = None THEN before.due_date
                              ELSE Instant(a.due_date[1]))
                      /\ after.priority
                           = (IF a.priority = None THEN before.priority
                              ELSE to_int(a.priority[1]))
                      /\ after.completed = before.completed
                      /\ after.id = before.id
                      /\ after.created_at = before.created_at
                      /\ IdSeq(rows') = IdSeq(rows)
        /\ \A i \in DOMAIN rows, j \in DOMAIN rows' :
              (rows[i].id = rows'[j].id /\ rows[i].completed)
                  => rows'[j].completed
      ]_vars

\* The id assigned by a create: 1 in an empty table, else one more than
\* the largest stored id.
AssignsMaxPlusOne ==
    \A task \in NewTasks(now) :
        DbAddTask(task) =>
            /\ Present(rows', ret'.id)
            /\ rows = << >> => ret'.id = 1
            /\ rows # << >> =>
                  /\ Present(rows, ret'.id - 1)
                  /\ \A i \in DOMAIN rows : rows[i].id < ret'.id

\* id is stored and no stored id is larger.
Largest(rs, id) == Present(rs, id) /\ \A i \in DOMAIN rs : rs[i].id <= id

\* A deleted id that was not the largest is not the id of the next create
\* while a larger id is stored.
SmallerNotReassigned ==
    \A id \in IdArgs :
        (DbDeleteTask(id) /\ Present(rows, id) /\ ~Largest(rows, id)) =>
            /\ last_insert_rowid(rows') # id
            /\ last_insert_rowid(rows') > id

\* C17 as claimed: ids are assigned as the largest stored id + 1 (1 in an
\* empty table), a create that follows the deletion of the task with the
\* largest id returns that id again, and a deleted id that was not the
\* largest is not reassigned while a larger one is stored.
C17_LargestIdReturnsAgain ==
    [][ /\ AssignsMaxPlusOne
        /\ \A id \in IdArgs :
              (DbDeleteTask(id) /\ Largest(rows, id)) =>
                  last_insert_rowid(rows') = id
        /\ SmallerNotReassigned
      ]_vars

\* C17, amended: ids are assigned as the largest stored id + 1 (1 in an
\* empty table); a create that follows the deletion of the task with the
\* largest id returns one more than the largest id that is left (1 when
\* none is left), which is the deleted id again exactly when the deleted id
\* was one more than the largest id left, or was 1 with none left; and a
\* deleted id that was not the largest is not reassigned while a larger
\* one is stored.
C17_NextIdIsMaxPlusOne ==
    [][ /\ AssignsMaxPlusOne
        /\ \A id \in IdArgs :
              (DbDeleteTask(id) /\ Largest(rows, id)) =>
                  /\ rows' = << >> => last_insert_rowid(rows') = 1
                  /\ rows' # << >> =>
                        /\ Present(rows', last_insert_rowid(rows') - 1)
                        /\ \A i \in DOMAIN rows' :
                              rows'[i].id < last_insert_rowid(rows')
                  /\ last_insert_rowid(rows') = id
                        <=> (IF rows' = << >> THEN id = 1
                             ELSE Present(rows', id - 1))
        /\ SmallerNotReassigned
      ]_vars

\* C17 witness: id 1 was deleted while id 2 stayed stored, and the create
\* that followed returned 3, not 1.
C17_Witness ==
    /\ ret.op = "db_add"
    /\ ret.id = 3
    /\ IdSeq(rows) = << 2, 3 >>
    /\ writes = MaxWrites

====
